---- MODULE Spec2Model ----
(***************************************************************************)
(* Model of the pynubls key bindings (pynubls/src/keys.rs): the PrivateKey *)
(* and PublicKey classes exported to Python, on top of the nubls core and  *)
(* the bls12_381 curve library.                                            *)
(*                                                                         *)
(* The curve is abstracted by discrete logarithms: the scalar field is the *)
(* prime field Z_Q, a point of G1 or G2 is named by its logarithm with     *)
(* respect to the group's generator, and the pairing e(x*G1, y*G2) is      *)
(* named by x*y.  Byte buffers keep the widths of the program.             *)
(***************************************************************************)
EXTENDS Integers, Sequences, FiniteSets, TLC

VARIABLE last

vars == <<last>>

(* ------------------------------ bounds -------------------------------- *)

\* Largest number of fragments a split is asked for.
MaxN == 3

(* ------------------------- scalar field and groups --------------------- *)

\* Order of the scalar field (a small prime in place of the BLS12-381 order).
Q == 5

Zq == 0..(Q - 1)

Add(a, b) == (a + b) % Q

Sub(a, b) == (a - b + Q) % Q

Mul(a, b) == (a * b) % Q

\* Scalar::invert of a nonzero scalar.
Invert(a) == CHOOSE b \in 1..(Q - 1) : (a * b) % Q = 1

\* Generator of G1, by its logarithm.
G1Generator == 1

\* The pairing e : G1 x G2 -> GT, all three groups by logarithm.
Pairing(p, q) == (p * q) % Q

\* Hash of a Diffie-Hellman point to a scalar.
HashToScalar(x) == (3 * x * x + x + 2) % Q

(* ------------------------------ outcomes ------------------------------ *)

\* A call on the Python side ends in a value, a Python exception or a panic.
Ok(v) == [tag |-> "Ok", val |-> v]

Err(kind) == [tag |-> "Err", kind |-> kind]

Panic == [tag |-> "Panic"]

(* ------------------------------- objects ------------------------------ *)

\* nubls::PrivateKey, full variant: the scalar alone.
PrivateKeyStub(s) == [frag |-> FALSE, s |-> s, x |-> 0]

\* nubls::PrivateKey, fragment variant: the share and its evaluation index.
Fragment(s, x) == [frag |-> TRUE, s |-> s, x |-> x]

\* nubls::PublicKey: a point of G1.
PublicKeyStub(p) == [g1 |-> p]

\* bls::Signature: a point of G2.
Signature(p) == [g2 |-> p]

FullKeys == {PrivateKeyStub(s) : s \in Zq}

FragmentKeys == {Fragment(s, x) : s \in Zq, x \in Zq}

AllKeys == FullKeys \cup FragmentKeys

PublicKeys == {PublicKeyStub(p) : p \in Zq}

Signatures == {Signature(p) : p \in Zq}

(* ------------------------------- buffers ------------------------------ *)

ScalarWidth == 32

FragmentWidth == 64

G1Width == 48

G2Width == 96

Zeros(n) == [j \in 1..n |-> 0]

\* Byte j, counted from the least significant, of v.  The values of the
\* model are below 2^24, so the bytes from the fourth on are zero.
Digit(v, j) == IF j > 3 THEN 0 ELSE (v \div (256 ^ (j - 1))) % 256

\* Little-endian bytes of v in n bytes (Scalar::to_bytes).
LittleEndian(v, n) == [j \in 1..n |-> Digit(v, j)]

\* Big-endian bytes of v in n bytes (the coordinate of a compressed point).
BigEndian(v, n) == [j \in 1..n |-> Digit(v, n + 1 - j)]

\* Scalar::from_bytes: the canonical little-endian encodings are the values
\* below the field order, which fit the first byte; anything else is None.
ScalarCanonical(b) == b[1] < Q /\ \A j \in 2..Len(b) : b[j] = 0

ScalarValue(b) == b[1]

\* Compressed encoding of a point: the compression flag in the top bit of the
\* first byte, the infinity flag in the next, the coordinate big-endian.
Compress(p, width) ==
    IF p = 0 THEN <<192>> \o Zeros(width - 1)
    ELSE LET c == BigEndian(p, width) IN [c EXCEPT ![1] = c[1] + 128]

\* from_compressed: None unless the compression flag is set and the rest is
\* either the encoding of infinity or the coordinate of a point of the group.
Decompressible(b) ==
    /\ (b[1] \div 128) % 2 = 1
    /\ IF (b[1] \div 64) % 2 = 1
       THEN b[1] = 192 /\ \A j \in 2..Len(b) : b[j] = 0
       ELSE /\ b[1] = 128
            /\ \A j \in 2..(Len(b) - 1) : b[j] = 0
            /\ b[Len(b)] \in 1..(Q - 1)

Decompress(b) == IF (b[1] \div 64) % 2 = 1 THEN 0 ELSE b[Len(b)]

(* ----------------------------- nubls core ----------------------------- *)

\* PrivateKey::public_key of the core: the scalar times the generator.
inner_public_key(k) == PublicKeyStub(Mul(k.s, G1Generator))

\* PrivateKey::sign of the core: the scalar times the message point.
inner_sign(k, m) == Signature(Mul(k.s, m))

\* PublicKey::verify of the core: e(G1_generator, sig) == e(pk, m).
inner_verify(pk, m, sig) ==
    IF Pairing(G1Generator, sig.g2) = Pairing(pk.g1, m)
    THEN "Valid" ELSE "Invalid"

\* PrivateKey::is_fragment of the core.
inner_is_fragment(k) == k.frag

\* PrivateKey::to_bytes of the core: fills the caller's buffer, 32 bytes of
\* scalar for a full key, scalar then index for a fragment.
inner_to_bytes(k, buff) ==
    LET enc == IF k.frag
               THEN LittleEndian(k.s, ScalarWidth) \o LittleEndian(k.x, ScalarWidth)
               ELSE LittleEndian(k.s, ScalarWidth)
    IN  IF Len(buff) = Len(enc) THEN Ok(enc) ELSE Panic

\* PrivateKey::from_bytes of the core: the width selects the variant.  It
\* returns a key, not a Result, so every rejection is a panic.
inner_from_bytes(b) ==
    IF Len(b) = ScalarWidth
    THEN IF ScalarCanonical(b) THEN Ok(PrivateKeyStub(ScalarValue(b))) ELSE Panic
    ELSE IF Len(b) = FragmentWidth
    THEN LET lo == SubSeq(b, 1, ScalarWidth)
             hi == SubSeq(b, ScalarWidth + 1, FragmentWidth)
         IN  IF ScalarCanonical(lo) /\ ScalarCanonical(hi)
             THEN Ok(Fragment(ScalarValue(lo), ScalarValue(hi)))
             ELSE Panic
    ELSE Panic

\* PublicKey::from_bytes of the core, on a 48-byte array.
inner_pk_from_bytes(b) ==
    IF Decompressible(b) THEN Ok(PublicKeyStub(Decompress(b))) ELSE Panic

\* PublicKey::to_bytes of the core.
inner_pk_to_bytes(pk) == Compress(pk.g1, G1Width)

\* Value at x of the polynomial with the given coefficients, constant first.
RECURSIVE Evaluate(_, _)
Evaluate(coeffs, x) ==
    IF coeffs = <<>> THEN 0
    ELSE Add(Head(coeffs), Mul(x, Evaluate(Tail(coeffs), x)))

\* ThresholdKey::split: a polynomial of degree m-1 with the secret as its
\* constant term and rnd as the m-1 random coefficients, at indices 1..n.
\* The count m-1 of a usize m = 0 overflows.
inner_split(k, m, n, rnd) ==
    IF m = 0 THEN Panic
    ELSE Ok([i \in 1..n |-> Fragment(Evaluate(<<k.s>> \o rnd, i), i)])

DistinctIndices(f) == \A i, j \in 1..Len(f) : i # j => f[i].x # f[j].x

\* Lagrange basis polynomial of fragment i at 0: the product over the other
\* fragments j <= upto of x_j / (x_j - x_i).
RECURSIVE LagrangeBasis(_, _, _)
LagrangeBasis(f, i, upto) ==
    IF upto = 0 THEN 1
    ELSE IF upto = i THEN LagrangeBasis(f, i, upto - 1)
    ELSE Mul(LagrangeBasis(f, i, upto - 1),
             Mul(f[upto].x, Invert(Sub(f[upto].x, f[i].x))))

RECURSIVE Interpolate(_, _)
Interpolate(f, upto) ==
    IF upto = 0 THEN 0
    ELSE Add(Interpolate(f, upto - 1), Mul(f[upto].s, LagrangeBasis(f, upto, Len(f))))

\* ThresholdKey::recover: Lagrange interpolation at 0 over the fragments it
\* is given.  A fragment carries no threshold, so none is checked.
inner_recover(f) ==
    IF DistinctIndices(f) THEN Ok(PrivateKeyStub(Interpolate(f, Len(f)))) ELSE Panic

\* PRSKey::designated_key: the hash of the Diffie-Hellman point.
inner_designated_key(k, pk) == PrivateKeyStub(HashToScalar(Mul(k.s, pk.g1)))

\* PRSKey::resigning_key: the designated scalar over the own scalar.
inner_resigning_key(k, pk) ==
    IF k.s = 0 THEN Panic
    ELSE Ok(PrivateKeyStub(Mul(inner_designated_key(k, pk).s, Invert(k.s))))

\* PRSKey::resign: the re-signing scalar times the signature.
inner_resign(k, sig) == Signature(Mul(k.s, sig.g2))

(* -------------------------- pynubls bindings -------------------------- *)

\* `msg.copy_from_slice(message.as_bytes())` into [0u8; 96], then
\* `G2Affine::from_compressed(&msg).unwrap()`: a point, or a panic.
MessagePoint(message) ==
    IF Len(message) # G2Width THEN Panic
    ELSE IF ~Decompressible(message) THEN Panic
    ELSE Ok(Decompress(message))

public_key(self) == Ok(inner_public_key(self))

sign(self, message) ==
    LET msg == MessagePoint(message)
    IN  IF msg.tag = "Panic" THEN Panic ELSE Ok(inner_sign(self, msg.val))

split(self, m, n, rnd) ==
    LET r == inner_split(self, m, n, rnd)
    IN  IF r.tag = "Panic" THEN Panic
        ELSE Ok([i \in 1..Len(r.val) |-> r.val[i]])

\* recover with a fault: the first fragment is left out of the slice.
recover_skips_first(fragments) ==
    LET f == [i \in 1..Len(fragments) |-> fragments[i]]
    IN  inner_recover(SubSeq(f, 2, Len(f)))

recover(fragments) ==
    LET f == [i \in 1..Len(fragments) |-> fragments[i]]
    IN  inner_recover(SubSeq(f, 1, Len(f)))

is_fragment(self) == Ok(inner_is_fragment(self))

\* from_bytes with a fault: only the first 32 bytes are handed to the core.
from_bytes_first_scalar(bytes) ==
    IF Len(bytes) < ScalarWidth THEN Panic
    ELSE inner_from_bytes(SubSeq(bytes, 1, ScalarWidth))

from_bytes(bytes) == inner_from_bytes(SubSeq(bytes, 1, Len(bytes)))

to_bytes(self) ==
    IF ~inner_is_fragment(self)
    THEN inner_to_bytes(self, Zeros(ScalarWidth))
    ELSE inner_to_bytes(self, Zeros(FragmentWidth))

resigning_key(self, bob_pubkey) == inner_resigning_key(self, bob_pubkey)

designated_key(self, alice_pubkey) == Ok(inner_designated_key(self, alice_pubkey))

\* resign with a fault: the signature is returned as it came.
resign_unchanged(self, signature) == Ok(signature)

resign(self, signature) == Ok(inner_resign(self, signature))

\* verify with a fault: the arms of the match are exchanged.
verify_arms_exchanged(self, message, signature) ==
    LET msg == MessagePoint(message)
    IN  IF msg.tag = "Panic" THEN Panic
        ELSE LET res == inner_verify(self, msg.val, signature)
             IN  IF res = "Invalid" THEN Ok(TRUE) ELSE Err("InvalidSignature")

\* verify with a fault: an invalid signature is reported as Ok(false).
verify_returns_false(self, message, signature) ==
    LET msg == MessagePoint(message)
    IN  IF msg.tag = "Panic" THEN Panic
        ELSE LET res == inner_verify(self, msg.val, signature)
             IN  IF res = "Valid" THEN Ok(TRUE) ELSE Ok(FALSE)

verify(self, message, signature) ==
    LET msg == MessagePoint(message)
    IN  IF msg.tag = "Panic" THEN Panic
        ELSE LET res == inner_verify(self, msg.val, signature)
             IN  IF res = "Valid" THEN Ok(TRUE) ELSE Err("InvalidSignature")

PublicKey_from_bytes(bytes) ==
    IF Len(bytes) # G1Width THEN Panic
    ELSE inner_pk_from_bytes(bytes)

PublicKey_to_bytes(self) == Ok(inner_pk_to_bytes(self))

(* ---------------------- arguments a caller passes ---------------------- *)

\* The keys, fragments, public keys and signatures of the model are values:
\* no call changes an object, and a caller may hold any of them (a key from
\* random or from_bytes, a fragment from split or from_bytes, a public key
\* from public_key or from_bytes, a signature from sign or resign).

\* Message buffers: every compressed point of G2, and buffers that are too
\* short, too long, empty, without the compression flag, or off the curve.
MsgBuffers ==
    {Compress(p, G2Width) : p \in Zq}
        \cup {<<>>, Zeros(G2Width - 1), Zeros(G2Width + 1), Zeros(G2Width),
              [Zeros(G2Width) EXCEPT ![1] = 128, ![G2Width] = Q]}

\* Private-key buffers: every full key and fragment encoding, and buffers of
\* other widths or holding a scalar that is not canonical.
PrivBuffers ==
    {LittleEndian(s, ScalarWidth) : s \in Zq}
        \cup {LittleEndian(s, ScalarWidth) \o LittleEndian(x, ScalarWidth) :
                  s \in Zq, x \in Zq}
        \cup {<<>>, Zeros(ScalarWidth - 1), Zeros(ScalarWidth + 1),
              Zeros(FragmentWidth - 1), Zeros(FragmentWidth + 1),
              [j \in 1..ScalarWidth |-> 255]}

\* Public-key buffers: every compressed point of G1, and buffers of other
\* widths or without the compression flag.
PubBuffers ==
    {Compress(p, G1Width) : p \in Zq}
        \cup {<<>>, Zeros(G1Width - 1), Zeros(G1Width + 1), Zeros(G1Width)}

\* The random coefficients a split with threshold m draws.
Coefficients(m) == IF m = 0 THEN {<<>>} ELSE [1..(m - 1) -> Zq]

\* The fragments a split of at most MaxN hands out.
SplitFragments == {Fragment(s, x) : s \in Zq, x \in 1..MaxN}

\* The lists passed to recover: up to MaxN fragments in any order, with or
\* without repetition, the empty list, and a full key alone.
FragmentLists ==
    UNION {[1..len -> SplitFragments] : len \in 0..MaxN}
        \cup {<<k>> : k \in FullKeys}

(* ---------------------------- state machine --------------------------- *)

\* last is the latest call: the method, its receiver, its arguments and its
\* outcome.  Every method can be called at any time, on any object.
None == <<>>

Call(op, recv, arg, out) ==
    [op |-> op, recv |-> recv, arg |-> arg, out |-> out]

Init ==
    \E k \in FullKeys : last = Call("random", None, None, Ok(k))

Random ==
    \E k \in FullKeys : last' = Call("random", None, None, Ok(k))

PublicKeyCall ==
    \E self \in AllKeys :
        last' = Call("public_key", self, None, public_key(self))

SignCall ==
    \E self \in AllKeys, message \in MsgBuffers :
        last' = Call("sign", self, message, sign(self, message))

SplitCall ==
    \E self \in AllKeys, m \in 0..MaxN, n \in 0..MaxN :
        \E rnd \in Coefficients(m) :
            last' = Call("split", self, [m |-> m, n |-> n], split(self, m, n, rnd))

RecoverCall ==
    \E fragments \in FragmentLists :
        last' = Call("recover", None, fragments, recover(fragments))

IsFragmentCall ==
    \E self \in AllKeys :
        last' = Call("is_fragment", self, None, is_fragment(self))

FromBytesCall ==
    \E bytes \in PrivBuffers :
        last' = Call("from_bytes", None, bytes, from_bytes(bytes))

ToBytesCall ==
    \E self \in AllKeys :
        last' = Call("to_bytes", self, None, to_bytes(self))

ResigningKeyCall ==
    \E self \in AllKeys, bob_pubkey \in PublicKeys :
        last' = Call("resigning_key", self, bob_pubkey,
                     resigning_key(self, bob_pubkey))

DesignatedKeyCall ==
    \E self \in AllKeys, alice_pubkey \in PublicKeys :
        last' = Call("designated_key", self, alice_pubkey,
                     designated_key(self, alice_pubkey))

ResignCall ==
    \E self \in AllKeys, signature \in Signatures :
        last' = Call("resign", self, signature, resign(self, signature))

VerifyCall ==
    \E self \in PublicKeys, message \in MsgBuffers, signature \in Signatures :
        last' = Call("verify", self, [message |-> message, signature |-> signature],
                     verify(self, message, signature))

PubFromBytesCall ==
    \E bytes \in PubBuffers :
        last' = Call("PublicKey.from_bytes", None, bytes, PublicKey_from_bytes(bytes))

PubToBytesCall ==
    \E self \in PublicKeys :
        last' = Call("PublicKey.to_bytes", self, None, PublicKey_to_bytes(self))

\* The calls on keys, public keys and signatures.
KeyCalls ==
    \/ Random
    \/ PublicKeyCall
    \/ SignCall
    \/ IsFragmentCall
    \/ PubFromBytesCall
    \/ PubToBytesCall
    \/ FromBytesCall
    \/ ToBytesCall
    \/ ResigningKeyCall
    \/ DesignatedKeyCall
    \/ ResignCall
    \/ VerifyCall

\* The calls of threshold sharing.
ShareCalls ==
    \/ SplitCall
    \/ RecoverCall

Next ==
    \/ KeyCalls
    \/ ShareCalls

Spec == Init /\ [][Next]_vars

\* No call reads the state it is made in, so the states of Spec are those of
\* the two specifications below taken together.
SpecKeys == Init /\ [][KeyCalls]_vars

SpecShares == Init /\ [][ShareCalls]_vars


(* ------------------------------ properties ---------------------------- *)

\* C1: a signature a full key makes on a message point verifies under that
\* key's public key: verify returns true and raises nothing.
SignVerifyCorrect ==
    \A k \in FullKeys, m \in Zq :
        (/\ last.op = "verify"
         /\ Ok(last.recv) = public_key(k)
         /\ last.arg.message = Compress(m, G2Width)
         /\ Ok(last.arg.signature) = sign(k, Compress(m, G2Width)))
        => last.out = Ok(TRUE)

SignVerifyWitness ==
    /\ last.op = "verify"
    /\ last.out = Ok(TRUE)
    /\ \E k \in FullKeys, m \in Zq :
        /\ k.s # 0 /\ m # 0
        /\ Ok(last.recv) = public_key(k)
        /\ last.arg.message = Compress(m, G2Width)
        /\ Ok(last.arg.signature) = sign(k, Compress(m, G2Width))

\* C2: on a well-formed message verify has two outcomes: true when
\* e(G1_generator, signature) = e(publicKey, message), the InvalidSignature
\* error when it is not; it never returns false.
VerifyTwoOutcomes ==
    (last.op = "verify" /\ MessagePoint(last.arg.message).tag = "Ok")
    => LET m == Decompress(last.arg.message)
           holds == Pairing(G1Generator, last.arg.signature.g2)
                        = Pairing(last.recv.g1, m)
       IN  /\ holds => last.out = Ok(TRUE)
           /\ ~holds => last.out = Err("InvalidSignature")
           /\ last.out # Ok(FALSE)

VerifyRejectsWitness ==
    /\ last.op = "verify"
    /\ MessagePoint(last.arg.message).tag = "Ok"
    /\ Pairing(G1Generator, last.arg.signature.g2)
           # Pairing(last.recv.g1, Decompress(last.arg.message))
    /\ last.out = Err("InvalidSignature")

\* The delegation chain: Alice a signs m, Bob b derives the designated key
\* from Alice's public key, Alice derives the re-signing key from the public
\* key pk, and the proxy re-signs.
APub(a) == public_key(a).val

DPriv(a, b) == designated_key(b, APub(a)).val

DPub(a, b) == public_key(DPriv(a, b)).val

Resigned(a, pk, m) ==
    resign(resigning_key(a, pk).val, sign(a, Compress(m, G2Width)).val).val

VerifyOf(pk, m, sig) ==
    /\ last.op = "verify"
    /\ last.recv = pk
    /\ last.arg.message = Compress(m, G2Width)
    /\ last.arg.signature = sig

\* C3 as stated: with the re-signing key derived from the designated public
\* key, the re-signed signature verifies under the designated public key and
\* does not verify under Alice's.
DelegationWithDesignatedPub ==
    \A a \in FullKeys, b \in FullKeys, m \in Zq :
        resigning_key(a, DPub(a, b)).tag = "Ok"
        => /\ VerifyOf(DPub(a, b), m, Resigned(a, DPub(a, b), m))
                  => last.out = Ok(TRUE)
           /\ VerifyOf(APub(a), m, Resigned(a, DPub(a, b), m))
                  => last.out # Ok(TRUE)

\* C3 amended: with the re-signing key derived from Bob's public key, by an
\* Alice whose scalar is not zero, the re-signed signature verifies under the
\* designated public key; under Alice's public key it fails with
\* InvalidSignature unless the message is the identity point or the
\* designated scalar equals Alice's.
DelegationEndToEnd ==
    \A a \in FullKeys, b \in FullKeys, m \in Zq :
        a.s # 0
        => /\ resigning_key(a, APub(b)).tag = "Ok"
           /\ VerifyOf(DPub(a, b), m, Resigned(a, APub(b), m))
                  => last.out = Ok(TRUE)
           /\ (m # 0 /\ DPriv(a, b).s # a.s
                 /\ VerifyOf(APub(a), m, Resigned(a, APub(b), m)))
                  => last.out = Err("InvalidSignature")

DelegationWitness ==
    /\ last.op = "verify"
    /\ last.out = Ok(TRUE)
    /\ \E a \in FullKeys, b \in FullKeys, m \in Zq :
        /\ a.s # 0 /\ b.s # 0 /\ m # 0
        /\ DPriv(a, b).s # a.s
        /\ VerifyOf(DPub(a, b), m, Resigned(a, APub(b), m))

\* The list l holds fragments of fr, none of them twice.
IsSelection(l, fr) ==
    /\ \A i \in 1..Len(l) : \E j \in 1..Len(fr) : l[i] = fr[j]
    /\ \A i, j \in 1..Len(l) : i # j => l[i] # l[j]

\* C4: recovering from at least m of the n fragments of split(m, n), with
\* 1 <= m <= n, gives a full key with the bytes of the key that was split,
\* whichever fragments are passed.
ThresholdCorrect ==
    last.op = "recover"
    => \A k \in FullKeys, m \in 1..MaxN, n \in 1..MaxN :
          \A rnd \in Coefficients(m) :
             (/\ m <= n
              /\ Len(last.arg) >= m
              /\ IsSelection(last.arg, split(k, m, n, rnd).val))
             => /\ last.out.tag = "Ok"
                /\ is_fragment(last.out.val) = Ok(FALSE)
                /\ to_bytes(last.out.val) = to_bytes(k)

ThresholdWitness ==
    /\ last.op = "recover"
    /\ \E k \in FullKeys, rnd \in Coefficients(2) :
          /\ k.s # 0 /\ rnd[1] # 0
          /\ last.arg = <<split(k, 2, 3, rnd).val[3], split(k, 2, 3, rnd).val[2]>>
          /\ last.out = Ok(k)

\* C5: recover with fewer fragments (here at least one) than the threshold
\* of the split fails with InsufficientShares.
RecoverInsufficientFails ==
    last.op = "recover"
    => \A k \in FullKeys, m \in 1..MaxN, n \in 1..MaxN :
          \A rnd \in Coefficients(m) :
             (/\ m <= n
              /\ 1 <= Len(last.arg) /\ Len(last.arg) < m
              /\ IsSelection(last.arg, split(k, m, n, rnd).val))
             => last.out = Err("InsufficientShares")

\* C6: from_bytes of either class on a buffer that has not the expected
\* width fails with MalformedInput.
DecodeLengthValidated ==
    /\ (last.op = "from_bytes" /\ Len(last.arg) \notin {ScalarWidth, FragmentWidth})
           => last.out = Err("MalformedInput")
    /\ (last.op = "PublicKey.from_bytes" /\ Len(last.arg) # G1Width)
           => last.out = Err("MalformedInput")

\* C7: public_key and sign on a fragment fail with NotASigningKey.
FragmentCannotSign ==
    /\ (last.op = "public_key" /\ last.recv.frag)
           => last.out = Err("NotASigningKey")
    /\ (last.op = "sign" /\ last.recv.frag /\ MessagePoint(last.arg).tag = "Ok")
           => last.out = Err("NotASigningKey")

\* C8: decoding the bytes of a private key of either variant gives that key
\* back, variant included, and decoding the bytes of a public key gives that
\* public key back.
RoundTrip ==
    /\ \A k \in AllKeys :
          (last.op = "from_bytes" /\ Ok(last.arg) = to_bytes(k))
          => last.out = Ok(k)
    /\ \A p \in PublicKeys :
          (last.op = "PublicKey.from_bytes" /\ Ok(last.arg) = PublicKey_to_bytes(p))
          => last.out = Ok(p)

RoundTripWitness ==
    /\ last.op = "from_bytes"
    /\ last.out.tag = "Ok"
    /\ last.out.val.frag /\ last.out.val.s # 0 /\ last.out.val.x # 0
    /\ Len(last.arg) = FragmentWidth
    /\ Ok(last.arg) = to_bytes(last.out.val)

\* C9: split(m, n) with m = 0 or m > n fails with InvalidThresholdParameters;
\* with 1 <= m <= n it returns n fragments, each a fragment.
SplitChecksThreshold ==
    last.op = "split"
    => IF last.arg.m = 0 \/ last.arg.m > last.arg.n
       THEN last.out = Err("InvalidThresholdParameters")
       ELSE /\ last.out.tag = "Ok"
            /\ Len(last.out.val) = last.arg.n
            /\ \A i \in 1..Len(last.out.val) :
                  is_fragment(last.out.val[i]) = Ok(TRUE)

\* C10: sign and verify on a message buffer that is not 96 bytes, or is no
\* compressed point of G2, return a typed error and do not panic.
MalformedMessageIsAnError ==
    /\ (last.op = "sign" /\ MessagePoint(last.arg).tag # "Ok")
           => last.out.tag = "Err"
    /\ (last.op = "verify" /\ MessagePoint(last.arg.message).tag # "Ok")
           => last.out.tag = "Err"

====
